---- MODULE Spec2Model ----
(***************************************************************************)
(* The dial queue (DialQueue) of the connection manager: dial(), the job   *)
(* body it submits to the priority job queue, calculateMultiaddrs(),       *)
(* start() and stop().                                                     *)
(*                                                                         *)
(* A multiaddr is a record [h |-> host, p |-> peer id or NoPeer]; its      *)
(* string form is the tuple <<h, p>>.  The collaborators the dial queue    *)
(* borrows (peer store, peer routing, gater, DNS, transports) are an       *)
(* environment record `env`.                                               *)
(***************************************************************************)
EXTENDS Integers, Sequences, FiniteSets, TLC

(***************************************************************************)
(* Bounds of the model                                                     *)
(***************************************************************************)
\* number of dial() calls in one behaviour
MaxCalls == 2
MaxJoinCalls == 4
\* largest value the constructor's numeric options are drawn from
MaxOption == 2

(***************************************************************************)
(* Values                                                                  *)
(***************************************************************************)
NoPeer == "none"
LocalPeer == "Self"
RemotePeers == {"P1", "P2"}

\* hosts: a, b and g are plain addresses with a transport, d is a dnsaddr
\* name, r is a circuit-relay address, x is an address no transport dials
Hosts == {"a", "b", "d", "g", "r", "x"}
DnsHosts == {"d"}
PathHosts == {}
CircuitHosts == {"r"}
NoTransportHosts == {"x"}

MA(h, p) == [h |-> h, p |-> p]

\* Multiaddr.toString()
MaToString(ma) == <<ma.h, ma.p>>

\* multiaddr(string)
Parse(s) == [h |-> s[1], p |-> s[2]]

\* Multiaddr.getPeerId()
GetPeerId(ma) == ma.p

\* Multiaddr.encapsulate("/p2p/<peer>")
Encapsulate(ma, peer) == [ma EXCEPT !.p = peer]

Range(s) == {s[i] : i \in 1..Len(s)}

\* Set<string>.add over an insertion-ordered set
SetAdd(s, x) == IF x \in Range(s) THEN s ELSE Append(s, x)

RECURSIVE SetAddAll(_, _)
SetAddAll(s, xs) ==
  IF xs = <<>> THEN s ELSE SetAddAll(SetAdd(s, Head(xs)), Tail(xs))

MapSeq(s, F(_)) == [i \in 1..Len(s) |-> F(s[i])]

FilterSeq(s, Keep(_)) == SelectSeq(s, Keep)

RECURSIVE Flatten(_)
Flatten(ss) == IF ss = <<>> THEN <<>> ELSE Head(ss) \o Flatten(Tail(ss))

\* index of the first element satisfying Test, 0 when there is none
FindIndex(s, Test(_)) ==
  IF \E i \in 1..Len(s) : Test(s[i])
  THEN CHOOSE i \in 1..Len(s) : Test(s[i]) /\ \A j \in 1..(i - 1) : ~Test(s[j])
  ELSE 0

Addr(ma, cert) == [multiaddr |-> ma, isCertified |-> cert]

(***************************************************************************)
(* Collaborators (the Components the dial queue borrows)                   *)
(***************************************************************************)
\* transport kind of a host, as the default address sorter ranks it
KindOf(h) == IF h = "a" THEN "tcp" ELSE IF h = "b" THEN "ws" ELSE "other"

Found(as) == [err |-> "none", addresses |-> as]
Failed(e) == [err |-> e, addresses |-> <<>>]

\* The environment of the queue model: the peer store knows a (uncertified)
\* and b (certified) for P1 and nothing for P2, peer routing finds b for P2,
\* the dnsaddr name d resolves to a/p2p/P1, and the gater denies the peer P2
\* and every address of the host g.
DefaultEnv ==
  [ localPeer  |-> LocalPeer,
    denyPeers  |-> {"P2"},
    store      |-> [p \in RemotePeers \cup {LocalPeer} |->
                      IF p = "P1"
                      THEN Found(<<Addr(MA("a", NoPeer), FALSE), Addr(MA("b", NoPeer), TRUE)>>)
                      ELSE Failed("NotFoundError")],
    routing    |-> [p \in RemotePeers \cup {LocalPeer} |->
                      IF p = "P2" THEN Found(<<MA("b", NoPeer)>>)
                      ELSE Failed("NoPeerRoutersError")],
    dns        |-> [h \in DnsHosts |-> Found(<<MA("a", "P1")>>)],
    transports |-> Hosts \ (DnsHosts \cup NoTransportHosts),
    denyAddrs  |-> {MA("g", p) : p \in RemotePeers \cup {NoPeer}},
    sorter     |-> "default" ]

\* resolveMultiaddrs(ma, {dns, ...}): a dnsaddr name resolves through DNS to
\* a list of addresses, any other address resolves to itself
ResolveMultiaddrs(ma, env) ==
  IF ma.h \in DnsHosts THEN env.dns[ma.h] ELSE Found(<<ma>>)

\* transportManager.dialTransportForMultiaddr(ma) != null
HasTransport(ma, env) == ma.h \in env.transports

\* multiaddr.protos().pop().path === true
LastProtoIsPath(ma) == ma.h \in PathHosts /\ ma.p = NoPeer

\* Circuit.matches(ma)
IsCircuit(ma) == ma.h \in CircuitHosts

(***************************************************************************)
(* Address sorter                                                          *)
(***************************************************************************)
TransportRank(ma) ==
  IF KindOf(ma.h) = "wss" THEN 0
  ELSE IF KindOf(ma.h) = "ws" THEN 1
  ELSE IF KindOf(ma.h) = "tcp" THEN 2 ELSE 3

\* certified first, then public before relay, then wss > ws > tcp > other
SortKey(a) ==
  (IF a.isCertified THEN 0 ELSE 8) + (IF IsCircuit(a.multiaddr) THEN 4 ELSE 0)
    + TransportRank(a.multiaddr)

RECURSIVE InsertSorted(_, _)
InsertSorted(sorted, a) ==
  IF sorted = <<>> THEN <<a>>
  ELSE IF SortKey(a) < SortKey(Head(sorted)) THEN <<a>> \o sorted
       ELSE <<Head(sorted)>> \o InsertSorted(Tail(sorted), a)

RECURSIVE SortFrom(_, _)
SortFrom(sorted, rest) ==
  IF rest = <<>> THEN sorted
  ELSE SortFrom(InsertSorted(sorted, Head(rest)), Tail(rest))

\* defaultAddressSorter: a stable sort by SortKey
DefaultAddressSorter(as) == SortFrom(<<>>, as)

(***************************************************************************)
(* calculateMultiaddrs                                                     *)
(***************************************************************************)
\* the seed: every input string parsed, uncertified
SeedAddrs(seed) == MapSeq(seed, LAMBDA str : Addr(Parse(str), FALSE))

\* mutant: every error of the peer store is swallowed
LoadFromPeerStore_mut(peerId, addrs, env) ==
  IF addrs # <<>> THEN Found(addrs)
  ELSE IF env.store[peerId].err = "none" THEN Found(addrs \o env.store[peerId].addresses)
  ELSE Found(addrs)

\* peerStore.get(peerId), read only when the list is empty
LoadFromPeerStore(peerId, addrs, env) ==
  IF addrs # <<>> THEN Found(addrs)
  ELSE IF env.store[peerId].err = "none" THEN Found(addrs \o env.store[peerId].addresses)
  ELSE IF env.store[peerId].err = "NotFoundError" THEN Found(addrs)
  ELSE Failed(env.store[peerId].err)

\* peerRouting.findPeer(peerId), queried only when the list is still empty;
\* whatever it throws is caught
LookupPeerRouting(peerId, addrs, env) ==
  IF addrs # <<>> THEN Found(addrs)
  ELSE IF env.routing[peerId].err = "none"
       THEN Found(addrs \o MapSeq(env.routing[peerId].addresses, LAMBDA ma : Addr(ma, FALSE)))
       ELSE Found(addrs)

\* mutant: the peerId block without the self check
DiscoverAddrs_mut(peerId, addrs, env) ==
  IF peerId = NoPeer THEN Found(addrs)
  ELSE IF peerId \in env.denyPeers THEN Failed("DialDeniedError")
  ELSE LET loaded == LoadFromPeerStore(peerId, addrs, env)
       IN IF loaded.err # "none" THEN loaded
          ELSE LookupPeerRouting(peerId, loaded.addresses, env)

\* the peerId block: self check, peer gate, peer store, peer routing
DiscoverAddrs(peerId, addrs, env) ==
  IF peerId = NoPeer THEN Found(addrs)
  ELSE IF env.localPeer = peerId THEN Failed("DialError: Tried to dial self")
  ELSE IF peerId \in env.denyPeers THEN Failed("DialDeniedError")
  ELSE LET loaded == LoadFromPeerStore(peerId, addrs, env)
       IN IF loaded.err # "none" THEN loaded
          ELSE LookupPeerRouting(peerId, loaded.addresses, env)

\* one address through resolveMultiaddrs
ResolveOne(addr, env) ==
  LET result == ResolveMultiaddrs(addr.multiaddr, env)
  IN IF result.err # "none" THEN result
     ELSE IF Len(result.addresses) = 1 /\ result.addresses[1] = addr.multiaddr
          THEN Found(<<addr>>)
          ELSE Found(MapSeq(result.addresses, LAMBDA ma : Addr(ma, FALSE)))

\* Promise.all over the addresses, flattened; a resolver failure propagates
ResolveAddrs(addrs, env) ==
  LET results == MapSeq(addrs, LAMBDA a : ResolveOne(a, env))
      bad == FindIndex(results, LAMBDA r : r.err # "none")
  IN IF bad # 0 THEN Failed(results[bad].err)
     ELSE Found(Flatten(MapSeq(results, LAMBDA r : r.addresses)))

\* append /p2p/<peerId> where it is missing, except to path addresses
AppendPeerId(peerId, addrs) ==
  IF peerId = NoPeer THEN addrs
  ELSE MapSeq(addrs, LAMBDA a :
         IF LastProtoIsPath(a.multiaddr) THEN a
         ELSE IF GetPeerId(a.multiaddr) = NoPeer
              THEN Addr(Encapsulate(a.multiaddr, peerId), a.isCertified)
              ELSE a)

\* drop addresses without a transport and addresses of another peer
FilterAddrs(peerId, addrs, env) ==
  FilterSeq(addrs, LAMBDA a :
    /\ HasTransport(a.multiaddr, env)
    /\ (peerId # NoPeer /\ GetPeerId(a.multiaddr) # NoPeer
          => peerId = GetPeerId(a.multiaddr)))

\* deduplicate by string form, or-ing isCertified
RECURSIVE DedupeInto(_, _)
DedupeInto(deduped, rest) ==
  IF rest = <<>> THEN deduped
  ELSE LET a == Head(rest)
           at == FindIndex(deduped,
                   LAMBDA e : MaToString(e.multiaddr) = MaToString(a.multiaddr))
       IN IF at # 0
          THEN DedupeInto(
                 [deduped EXCEPT ![at].isCertified = deduped[at].isCertified \/ a.isCertified],
                 Tail(rest))
          ELSE DedupeInto(Append(deduped, a), Tail(rest))

\* mutant: no deduplication
DedupeAddrs_mut(addrs) == addrs

DedupeAddrs(addrs) == DedupeInto(<<>>, addrs)

\* mutant: denyDialMultiaddr is not consulted
GateAddrs_mut(addrs, env) == addrs

\* connectionGater.denyDialMultiaddr
GateAddrs(addrs, env) ==
  FilterSeq(addrs, LAMBDA a : a.multiaddr \notin env.denyAddrs)

\* addressSorter == null ? defaultAddressSorter(gated) : gated.sort(addressSorter)
SortAddrs(addrs, env) ==
  IF env.sorter = "default" THEN DefaultAddressSorter(addrs) ELSE addrs

CalculateMultiaddrs(peerId, seed, env) ==
  LET discovered == DiscoverAddrs(peerId, SeedAddrs(seed), env)
  IN IF discovered.err # "none" THEN discovered
     ELSE LET resolved == ResolveAddrs(discovered.addresses, env)
          IN IF resolved.err # "none" THEN resolved
             ELSE LET deduped ==
                        DedupeAddrs(FilterAddrs(peerId,
                          AppendPeerId(peerId, resolved.addresses), env))
                      sortedGated == SortAddrs(GateAddrs(deduped, env), env)
                  IN IF deduped = <<>> THEN Failed("NoValidAddressesError")
                     ELSE IF sortedGated = <<>> THEN Failed("DialDeniedError")
                     ELSE Found(sortedGated)

(***************************************************************************)
(* State                                                                   *)
(***************************************************************************)
VARIABLES
  init,          \* the DialerInit options given to the constructor
  connections,   \* the connections map, flattened: a sequence of Connections
  connStatus,    \* status of each connection of the map
  queue,         \* PriorityQueue.queue: the ids of the jobs it holds, in order
  jobs,          \* every job ever added: its options and its body's position
  calls,         \* every dial() call: its arguments and how its promise settled
  ncalls,        \* number of dial() calls made
  shutDownAborted, \* is the signal of the current shutDownController aborted
  dialable,      \* the last isDialable() call: its arguments and what it returned
  calculated     \* the last direct calculateMultiaddrs() call, its components included

vars ==
  <<init, connections, connStatus, queue, jobs, calls, ncalls, shutDownAborted, dialable,
    calculated>>

CallIds == 1..(IF MaxCalls > MaxJoinCalls THEN MaxCalls ELSE MaxJoinCalls)

NoConn == [id |-> <<"none", 0>>, remotePeer |-> NoPeer, remoteAddr |-> MA("a", NoPeer)]
MapConn(n, peer, ma) == [id |-> <<"map", n>>, remotePeer |-> peer, remoteAddr |-> ma]
DialedConn(j, ma) == [id |-> <<"dial", j>>, remotePeer |-> ma.p, remoteAddr |-> ma]

\* what the connections map may hold at construction
ConnectionMaps ==
  { <<MapConn(1, "P1", MA("a", "P1")), MapConn(2, "P1", MA("b", "P1"))>> }

\* the targets dial() is called with: a PeerId or a list of multiaddrs
PeerTarget(p) == [peer |-> p, addrs |-> <<>>]
AddrTarget(mas) == [peer |-> NoPeer, addrs |-> mas]

Targets ==
  { PeerTarget("P1"), AddrTarget(<<MA("d", NoPeer)>>),
    PeerTarget(LocalPeer), PeerTarget("P2"), AddrTarget(<<MA("g", NoPeer)>>) }

\* the arguments of a dial() call: force is only passed with a PeerId
DialArgs ==
  {[target |-> t, force |-> FALSE] : t \in Targets}
    \cup {[target |-> PeerTarget("P1"), force |-> TRUE]}

DEFAULT_DIAL_PRIORITY == 50

\* getPeerAddress: the PeerId of the target (given, or carried by its
\* multiaddrs) and its multiaddrs; multiaddrs carrying different PeerIds are
\* refused
GetPeerAddress(target) ==
  LET carried == {target.addrs[i].p : i \in 1..Len(target.addrs)} \ {NoPeer}
  IN IF target.peer # NoPeer
     THEN [err |-> "none", peerId |-> target.peer, multiaddrs |-> <<>>]
     ELSE IF Cardinality(carried) > 1
          THEN [err |-> "InvalidParametersError", peerId |-> NoPeer, multiaddrs |-> <<>>]
          ELSE [err |-> "none",
                peerId |-> IF carried = {} THEN NoPeer ELSE CHOOSE p \in carried : TRUE,
                multiaddrs |-> target.addrs]

NoTarget == PeerTarget(NoPeer)

NoCall ==
  [ target |-> NoTarget, force |-> FALSE, st |-> "none", via |-> "none", job |-> 0,
    res |-> NoConn, resStatus |-> "none", err |-> "none", signal |-> 0,
    aborted |-> FALSE ]

\* a job: the options dial() adds it with (peerId, multiaddrs, priority), its
\* status in the queue, and its body: the position pc, the locals, the
\* composite signal, and what the body has done so far: the transport dials
\* it made (tdials), the peer-store merges it called (merges) and the number
\* of merge errors it caught and logged (logged)
NoJob ==
  [ peerId |-> NoPeer, multiaddrs |-> <<>>, priority |-> DEFAULT_DIAL_PRIORITY,
    status |-> "none", pc |-> "idle", seed |-> <<>>, addrsToDial |-> <<>>,
    dialed |-> 0, errors |-> <<>>, tdials |-> <<>>, conn |-> NoConn,
    connOpen |-> FALSE, sigAborted |-> FALSE, result |-> "none",
    merges |-> <<>>, logged |-> 0 ]

\* no isDialable() call has been made
NoProbe ==
  [called |-> FALSE, multiaddr |-> <<>>, runOnLimitedConnection |-> TRUE, result |-> FALSE]

\* calculateMultiaddrs() has not been called directly
NoCalc ==
  [called |-> FALSE, peerId |-> NoPeer, seed |-> <<>>, env |-> DefaultEnv,
   result |-> Failed("none")]

Init ==
  /\ init \in [ maxParallelDials : 1..MaxOption,
                maxDialQueueLength : 1..MaxOption,
                maxPeerAddrsToDial : 1..MaxOption ]
  /\ connections \in ConnectionMaps
  /\ connStatus = [i \in 1..Len(connections) |-> "open"]
  /\ queue = <<>>
  /\ jobs = [j \in CallIds |-> NoJob]
  /\ calls = [c \in CallIds |-> NoCall]
  /\ ncalls = 0
  /\ shutDownAborted = FALSE
  /\ dialable = NoProbe
  /\ calculated = NoCalc

(***************************************************************************)
(* The priority job queue                                                  *)
(***************************************************************************)
\* mutant: the queue is given the queue length as its concurrency
Concurrency_mut == init.maxDialQueueLength

\* the concurrency the constructor gives the queue
Concurrency == init.maxParallelDials

\* queue.size
QueueSize(q) == Len(q)

\* the jobs of the queue that are executing
RunningJobs(q, js) == {q[i] : i \in {k \in 1..Len(q) : js[q[k]].status = "running"}}

\* mutant: the composite signal leaves out the shutdown signal
CreateDialAbortController_mut == FALSE

\* the composite signal of a body that starts now: a fresh timeout, the
\* signal of the current shutdown controller and the job's signal
CreateDialAbortController == shutDownAborted

\* the job function starts: it builds its composite signal, and
\* calculateMultiaddrs copies the job's address strings
StartBody(job) ==
  [job EXCEPT !.status = "running", !.pc = "calc", !.seed = job.multiaddrs,
              !.sigAborted = CreateDialAbortController]

\* dispatch the first waiting job when fewer than `concurrency` are running
TryToStartAnother(q, js) ==
  LET next == FindIndex(q, LAMBDA j : js[j].status = "queued")
  IN IF Cardinality(RunningJobs(q, js)) < Concurrency /\ next # 0
     THEN [js EXCEPT ![q[next]] = StartBody(js[q[next]])]
     ELSE js

\* enqueue by priority: higher first, first-in first-out among equals
Enqueue(q, j, js) ==
  LET before == SelectSeq(q, LAMBDA k : js[k].priority >= js[j].priority)
      after == SelectSeq(q, LAMBDA k : js[k].priority < js[j].priority)
  IN before \o <<j>> \o after

RemoveJob(q, j) == SelectSeq(q, LAMBDA k : k # j)

\* the waiters of a job: the caller that added it and the callers that joined
Waiters(cs, j) == {c \in CallIds : cs[c].job = j /\ cs[c].via \in {"add", "join"}}

\* mutant: a job that settles settles every waiter, pending or not
SettleJob_mut(j, js, outcome, conn, open) ==
  IF jobs[j].status # "running"
  THEN /\ jobs' = js
       /\ UNCHANGED <<queue, calls>>
  ELSE /\ calls' = [c \in CallIds |->
                      IF c \in Waiters(calls, j)
                      THEN IF outcome = "conn"
                           THEN [calls[c] EXCEPT !.st = "resolved", !.res = conn,
                                   !.resStatus = IF open THEN "open" ELSE "closed"]
                           ELSE [calls[c] EXCEPT !.st = "rejected", !.err = outcome]
                      ELSE calls[c]]
       /\ queue' = RemoveJob(queue, j)
       /\ jobs' = TryToStartAnother(RemoveJob(queue, j),
                    [js EXCEPT ![j].status =
                       IF outcome = "conn" THEN "complete" ELSE "errored"])

\* a running job of the queue settles: every waiter still pending gets the
\* outcome, the job leaves the queue and the next job is dispatched.  A job
\* the queue has already aborted settles nobody.
SettleJob(j, js, outcome, conn, open) ==
  IF jobs[j].status # "running"
  THEN /\ jobs' = js
       /\ UNCHANGED <<queue, calls>>
  ELSE /\ calls' = [c \in CallIds |->
                      IF c \in Waiters(calls, j) /\ calls[c].st = "pending"
                      THEN IF outcome = "conn"
                           THEN [calls[c] EXCEPT !.st = "resolved", !.res = conn,
                                   !.resStatus = IF open THEN "open" ELSE "closed"]
                           ELSE [calls[c] EXCEPT !.st = "rejected", !.err = outcome]
                      ELSE calls[c]]
       /\ queue' = RemoveJob(queue, j)
       /\ jobs' = TryToStartAnother(RemoveJob(queue, j),
                    [js EXCEPT ![j].status =
                       IF outcome = "conn" THEN "complete" ELSE "errored"])

(***************************************************************************)
(* dial()                                                                  *)
(***************************************************************************)
\* the first connection of the map that matches the target, 0 when none does
\* or when force is set
ExistingConnection(peerId, multiaddrs, force) ==
  FindIndex(connections, LAMBDA conn :
    /\ ~force
    /\ \/ (peerId # NoPeer /\ conn.remotePeer = peerId)
       \/ \E i \in 1..Len(multiaddrs) : multiaddrs[i] = conn.remoteAddr)

\* the existing connection is returned only when it is open
ShortCircuits(existing) == existing # 0 /\ connStatus[existing] = "open"

\* mutant: a job matches by PeerId only, its address strings are not compared
JobMatches_mut(job, peerId, multiaddrs) == peerId # NoPeer /\ job.peerId = peerId

\* does a job of the queue match the target: the same PeerId, or one of the
\* target's address strings in the job's set
JobMatches(job, peerId, multiaddrs) ==
  \/ (peerId # NoPeer /\ job.peerId = peerId)
  \/ \E i \in 1..Len(multiaddrs) : MaToString(multiaddrs[i]) \in Range(job.multiaddrs)

\* mutant: jobs are only looked for while the queue has room
ExistingDial_mut(peerId, multiaddrs) ==
  LET at == FindIndex(queue, LAMBDA j : JobMatches(jobs[j], peerId, multiaddrs))
  IN IF at = 0 \/ QueueSize(queue) >= init.maxDialQueueLength THEN 0 ELSE queue[at]

\* the first matching job of the queue, 0 when there is none
ExistingDial(peerId, multiaddrs) ==
  LET at == FindIndex(queue, LAMBDA j : JobMatches(jobs[j], peerId, multiaddrs))
  IN IF at = 0 THEN 0 ELSE queue[at]

\* mutant: a joining call waits with the signal the job was added with
JoinSignal_mut(c, j) == j

\* the signal a joining call waits with: the one passed to this dial() call
\* (signals are named after the call they were passed to)
JoinSignal(c, j) == c

\* the signal the call that adds a job waits with: its own
AddSignal(c) == c

\* mutant: the queue-full test is off by one
QueueIsFull_mut == QueueSize(queue) > init.maxDialQueueLength

\* the queue takes no new job
QueueIsFull == QueueSize(queue) >= init.maxDialQueueLength

\* the options of the job dial() adds
NewJob(peerId, multiaddrs, priority) ==
  [NoJob EXCEPT !.peerId = peerId, !.priority = priority, !.status = "queued",
                !.multiaddrs = SetAddAll(<<>>, MapSeq(multiaddrs, MaToString))]

\* dial(peerIdOrMultiaddr, {force})
DialCall(target, force) ==
  /\ LET c == ncalls + 1
         pa == GetPeerAddress(target)
         existing == ExistingConnection(pa.peerId, pa.multiaddrs, force)
         joined == ExistingDial(pa.peerId, pa.multiaddrs)
         call == [NoCall EXCEPT !.target = target, !.force = force]
     IN /\ ncalls' = c
        /\ IF pa.err # "none"
           THEN /\ calls' = [calls EXCEPT ![c] =
                      [call EXCEPT !.st = "rejected", !.via = "fail", !.err = pa.err]]
                /\ UNCHANGED <<queue, jobs>>
           ELSE IF ShortCircuits(existing)
           THEN /\ calls' = [calls EXCEPT ![c] =
                      [call EXCEPT !.st = "resolved", !.via = "short",
                                   !.res = connections[existing],
                                   !.resStatus = connStatus[existing]]]
                /\ UNCHANGED <<queue, jobs>>
           ELSE IF joined # 0
           THEN /\ calls' = [calls EXCEPT ![c] =
                      [call EXCEPT !.st = "pending", !.via = "join", !.job = joined,
                                   !.signal = JoinSignal(c, joined)]]
                /\ jobs' = [jobs EXCEPT ![joined].multiaddrs =
                      SetAddAll(@, MapSeq(pa.multiaddrs, MaToString))]
                /\ UNCHANGED queue
           ELSE IF QueueIsFull
           THEN /\ calls' = [calls EXCEPT ![c] =
                      [call EXCEPT !.st = "rejected", !.via = "fail",
                                   !.err = "DialError: Dial queue is full"]]
                /\ UNCHANGED <<queue, jobs>>
           ELSE LET js == [jobs EXCEPT ![c] =
                             NewJob(pa.peerId, pa.multiaddrs, DEFAULT_DIAL_PRIORITY)]
                    q == Enqueue(queue, c, js)
                IN /\ calls' = [calls EXCEPT ![c] =
                         [call EXCEPT !.st = "pending", !.via = "add", !.job = c,
                                      !.signal = AddSignal(c)]]
                   /\ queue' = q
                   /\ jobs' = TryToStartAnother(q, js)
  /\ UNCHANGED <<calculated, dialable, init, connections, connStatus, shutDownAborted>>

Dial(target, force) ==
  /\ ncalls < MaxCalls
  /\ DialCall(target, force)

(***************************************************************************)
(* The job body                                                            *)
(***************************************************************************)
\* the job function returns or throws: its locals are gone, its signal cleared
Finished(job, outcome) ==
  [job EXCEPT !.pc = "done", !.result = outcome, !.seed = <<>>, !.addrsToDial = <<>>,
              !.dialed = 0, !.errors = <<>>, !.sigAborted = FALSE]

\* mutant: the loop always throws AggregateError
AllFailed_mut(errors) == "AggregateError"

\* the error the loop throws when every address has been tried
AllFailed(errors) ==
  IF Len(errors) = 1 THEN "TransportError" ELSE "AggregateError"

\* mutant: the loop gives up one address too late
AttemptLimit_mut == init.maxPeerAddrsToDial + 1

\* the number of addresses after which the loop gives up
AttemptLimit == init.maxPeerAddrsToDial

\* mutant: the loop walks the calculated list from its end
NextAttempt_mut(job) ==
  IF job.dialed = Len(job.addrsToDial) THEN Finished(job, AllFailed(job.errors))
  ELSE IF job.dialed = AttemptLimit
       THEN Finished(job, "DialError: Peer had more than maxPeerAddrsToDial")
       ELSE [job EXCEPT !.pc = "dialing", !.dialed = job.dialed + 1,
               !.tdials = Append(@, MaToString(
                  job.addrsToDial[Len(job.addrsToDial) - job.dialed].multiaddr))]

\* the head of the for loop: stop at the end of the list, throw at the
\* attempt limit, otherwise call transportManager.dial for the next address
NextAttempt(job) ==
  IF job.dialed = Len(job.addrsToDial) THEN Finished(job, AllFailed(job.errors))
  ELSE IF job.dialed = AttemptLimit
       THEN Finished(job, "DialError: Peer had more than maxPeerAddrsToDial")
       ELSE [job EXCEPT !.pc = "dialing", !.dialed = job.dialed + 1,
               !.tdials = Append(@, MaToString(job.addrsToDial[job.dialed + 1].multiaddr))]

\* mutant: the catch block does not look at the signal
AfterFailure_mut(job) ==
  NextAttempt([job EXCEPT !.errors =
    Append(@, MaToString(job.addrsToDial[job.dialed].multiaddr))])

\* the catch block after the failure merge
AfterFailure(job) ==
  IF job.sigAborted THEN Finished(job, "TimeoutError")
  ELSE NextAttempt([job EXCEPT !.errors =
         Append(@, MaToString(job.addrsToDial[job.dialed].multiaddr))])

\* the body moved to job2: if it has finished, the job settles
BodyStep(j, job2) ==
  LET js == [jobs EXCEPT ![j] = job2]
  IN /\ IF job2.pc = "done"
        THEN SettleJob(j, js, job2.result, job2.conn, job2.connOpen)
        ELSE jobs' = js /\ UNCHANGED <<queue, calls>>
     /\ UNCHANGED <<calculated, dialable, init, connections, connStatus, ncalls, shutDownAborted>>

\* the calculated addresses are added to the job's set and the loop starts
AddCalculated(job, addrs) ==
  [job EXCEPT !.addrsToDial = addrs,
              !.multiaddrs = SetAddAll(@, MapSeq(addrs, LAMBDA a : MaToString(a.multiaddr)))]

\* mutant: the addresses are calculated from the job's set as it is when
\* the calculation ends
CalcDone_mut(j) ==
  /\ jobs[j].pc = "calc"
  /\ LET r == CalculateMultiaddrs(jobs[j].peerId, jobs[j].multiaddrs, DefaultEnv)
     IN BodyStep(j, IF r.err # "none" THEN Finished(jobs[j], r.err)
                    ELSE NextAttempt(AddCalculated(jobs[j], r.addresses)))

\* calculateMultiaddrs returns or throws
CalcDone(j) ==
  /\ jobs[j].pc = "calc"
  /\ LET r == CalculateMultiaddrs(jobs[j].peerId, jobs[j].seed, DefaultEnv)
     IN BodyStep(j, IF r.err # "none" THEN Finished(jobs[j], r.err)
                    ELSE NextAttempt(AddCalculated(jobs[j], r.addresses)))

\* mutant: the success merge leaves out the connection's remoteAddr
SuccessMerge_mut(conn) ==
  [key |-> "last-dial-success", peer |-> conn.remotePeer, multiaddrs |-> <<>>]

\* peerStore.merge(conn.remotePeer, {multiaddrs: [conn.remoteAddr],
\* metadata: {last-dial-success}})
SuccessMerge(conn) ==
  [key |-> "last-dial-success", peer |-> conn.remotePeer, multiaddrs |-> <<conn.remoteAddr>>]

\* peerStore.merge(peerId, {metadata: {last-dial-failure}})
FailureMerge(peerId) ==
  [key |-> "last-dial-failure", peer |-> peerId, multiaddrs |-> <<>>]

\* transportManager.dial returns a connection; the success merge is awaited
TransportDialSucceeds(j) ==
  /\ jobs[j].pc = "dialing"
  /\ ~jobs[j].sigAborted
  /\ LET conn == DialedConn(j, jobs[j].addrsToDial[jobs[j].dialed].multiaddr)
     IN BodyStep(j, [jobs[j] EXCEPT !.pc = "mergeSuccess", !.connOpen = TRUE,
                       !.conn = conn, !.merges = Append(@, SuccessMerge(conn))])

\* mutant: after the success merge the loop goes on to the next address
MergeSuccessDone_mut(j) ==
  /\ jobs[j].pc = "mergeSuccess"
  /\ BodyStep(j, NextAttempt(jobs[j]))

\* the success merge is over (it may have thrown): the connection is returned
MergeSuccessDone(j) ==
  /\ jobs[j].pc = "mergeSuccess"
  /\ BodyStep(j, Finished(jobs[j], "conn"))

\* mutant: an error thrown by the success merge fails the job
MergeSuccessThrows_mut(j) ==
  /\ jobs[j].pc = "mergeSuccess"
  /\ BodyStep(j, Finished([jobs[j] EXCEPT !.logged = @ + 1], "PeerStoreError"))

\* the success merge throws: the error is caught and logged, the connection
\* is returned
MergeSuccessThrows(j) ==
  /\ jobs[j].pc = "mergeSuccess"
  /\ BodyStep(j, Finished([jobs[j] EXCEPT !.logged = @ + 1], "conn"))

\* transportManager.dial throws; with a PeerId the failure merge is awaited
TransportDialFails(j) ==
  /\ jobs[j].pc = "dialing"
  /\ BodyStep(j, IF jobs[j].peerId # NoPeer
                 THEN [jobs[j] EXCEPT !.pc = "mergeFailure",
                         !.merges = Append(@, FailureMerge(jobs[j].peerId))]
                 ELSE AfterFailure(jobs[j]))

\* the failure merge is over (it may have thrown)
MergeFailureDone(j) ==
  /\ jobs[j].pc = "mergeFailure"
  /\ BodyStep(j, AfterFailure(jobs[j]))

\* the failure merge throws: the error is caught and logged, and the catch
\* block goes on with the transport error
MergeFailureThrows(j) ==
  /\ jobs[j].pc = "mergeFailure"
  /\ BodyStep(j, AfterFailure([jobs[j] EXCEPT !.logged = @ + 1]))

BodyActive(job) == job.pc \in {"calc", "dialing", "mergeSuccess", "mergeFailure"}

\* the dialTimeout timer of the composite signal fires
DialTimeout(j) ==
  /\ BodyActive(jobs[j])
  /\ ~jobs[j].sigAborted
  /\ jobs' = [jobs EXCEPT ![j].sigAborted = TRUE]
  /\ UNCHANGED <<calculated, dialable, init, connections, connStatus, queue, calls, ncalls, shutDownAborted>>

(***************************************************************************)
(* Cancellation, stop() and start()                                        *)
(***************************************************************************)
\* the queue aborts a job: its signal is aborted, which the composite signal
\* of a started body follows
AbortJob(job) ==
  [job EXCEPT !.status = "aborted", !.sigAborted = BodyActive(job) \/ job.sigAborted]

\* has the signal this waiter waits with been aborted
WaiterAborted(cs, w) == cs[cs[w].signal].aborted

\* a caller aborts the signal it passed to dial(): every pending waiter that
\* waits with that signal rejects, and the job itself is aborted once the
\* signals of all its waiters are aborted
AbortCall(s) ==
  /\ ~calls[s].aborted
  /\ \E c \in CallIds : calls[c].st = "pending" /\ calls[c].signal = s
  /\ LET hit == {c \in CallIds : calls[c].st = "pending" /\ calls[c].signal = s}
         j == calls[CHOOSE c \in hit : TRUE].job
         cs == [c \in CallIds |->
                  IF c \in hit
                  THEN [calls[c] EXCEPT !.st = "rejected", !.err = "AbortError",
                                        !.aborted = (c = s) \/ @]
                  ELSE IF c = s THEN [calls[c] EXCEPT !.aborted = TRUE] ELSE calls[c]]
     IN /\ calls' = cs
        /\ IF \A w \in Waiters(cs, j) : WaiterAborted(cs, w)
           THEN /\ queue' = RemoveJob(queue, j)
                /\ jobs' = TryToStartAnother(RemoveJob(queue, j),
                             [jobs EXCEPT ![j] = AbortJob(jobs[j])])
           ELSE UNCHANGED <<queue, jobs>>
  /\ UNCHANGED <<calculated, dialable, init, connections, connStatus, ncalls, shutDownAborted>>

\* stop(): abort the shutdown controller, then abort and clear the queue.
\* Every started body whose job is in the queue sees its composite signal
\* aborted (through the job's signal, and through the shutdown signal when
\* it holds the current controller); a body whose job has left the queue
\* was aborted when it left.
Stop ==
  /\ shutDownAborted' = TRUE
  /\ jobs' = [j \in CallIds |->
                IF j \in Range(queue) THEN AbortJob(jobs[j]) ELSE jobs[j]]
  /\ calls' = [c \in CallIds |->
                 IF calls[c].st = "pending" /\ calls[c].job \in Range(queue)
                 THEN [calls[c] EXCEPT !.st = "rejected", !.err = "AbortError"]
                 ELSE calls[c]]
  /\ queue' = <<>>
  /\ UNCHANGED <<calculated, dialable, init, connections, connStatus, ncalls>>

\* start(): a new shutdown controller, whose signal is not aborted
Start ==
  /\ shutDownAborted' = FALSE
  /\ UNCHANGED <<calculated, dialable, init, connections, connStatus, queue, jobs, calls, ncalls>>

(***************************************************************************)
(* The connections, whose lifecycle is owned outside the dial queue        *)
(***************************************************************************)
\* a connection of the map closes
ConnectionCloses(i) ==
  /\ i \in 1..Len(connections)
  /\ connStatus[i] = "open"
  /\ connStatus' = [connStatus EXCEPT ![i] = "closed"]
  /\ UNCHANGED <<calculated, dialable, init, connections, queue, jobs, calls, ncalls, shutDownAborted>>

\* the connection a transport dial returned closes while the job still
\* awaits the success merge
DialedConnectionCloses(j) ==
  /\ jobs[j].pc = "mergeSuccess"
  /\ jobs[j].connOpen
  /\ jobs' = [jobs EXCEPT ![j].connOpen = FALSE]
  /\ UNCHANGED <<calculated, dialable, init, connections, connStatus, queue, calls, ncalls, shutDownAborted>>

Next ==
  \/ \E args \in DialArgs : Dial(args.target, args.force)
  \/ \E j \in CallIds : CalcDone(j)
  \/ \E j \in CallIds : TransportDialSucceeds(j)
  \/ \E j \in CallIds : MergeSuccessDone(j)
  \/ \E j \in CallIds : TransportDialFails(j)
  \/ \E j \in CallIds : MergeFailureDone(j)
  \/ \E j \in CallIds : DialTimeout(j)
  \/ \E s \in CallIds : AbortCall(s)
  \/ Stop
  \/ Start
  \/ \E i \in 1..Len(connections) : ConnectionCloses(i)
  \/ \E j \in CallIds : DialedConnectionCloses(j)

Spec == Init /\ [][Next]_vars

\* the dial queue when the dialTimeout timers are the only source of
\* cancellation: no caller aborts its signal and stop() is not called
TimeoutNext ==
  \/ \E args \in DialArgs : Dial(args.target, args.force)
  \/ \E j \in CallIds : CalcDone(j)
  \/ \E j \in CallIds : TransportDialSucceeds(j)
  \/ \E j \in CallIds : MergeSuccessDone(j)
  \/ \E j \in CallIds : TransportDialFails(j)
  \/ \E j \in CallIds : MergeFailureDone(j)
  \/ \E j \in CallIds : DialTimeout(j)

TimeoutSpec == Init /\ [][TimeoutNext]_vars

\* the dial queue with a peer store whose merge may throw, and the
\* dialTimeout timers as the only source of cancellation
(***************************************************************************)
(* Callers that join a job with addresses of their own: a peer dialled by  *)
(* PeerId and then by a relay address, a dnsaddr name dialled alone and    *)
(* then together with a second address.                                    *)
(***************************************************************************)
JoinArgs ==
  { [target |-> PeerTarget("P1"), force |-> TRUE],
    [target |-> AddrTarget(<<MA("r", "P1")>>), force |-> TRUE],
    [target |-> AddrTarget(<<MA("d", NoPeer)>>), force |-> FALSE],
    [target |-> AddrTarget(<<MA("d", NoPeer), MA("b", NoPeer)>>), force |-> FALSE] }

JoinDial(target, force) ==
  /\ ncalls < MaxJoinCalls
  /\ DialCall(target, force)

JoinNext ==
  \/ \E a \in JoinArgs : JoinDial(a.target, a.force)
  \/ \E j \in CallIds : CalcDone(j)
  \/ \E j \in CallIds : TransportDialSucceeds(j)
  \/ \E j \in CallIds : MergeSuccessDone(j)
  \/ \E j \in CallIds : TransportDialFails(j)
  \/ \E j \in CallIds : MergeFailureDone(j)

JoinSpec == Init /\ [][JoinNext]_vars

MergeNext ==
  \/ \E args \in DialArgs : Dial(args.target, args.force)
  \/ \E j \in CallIds : CalcDone(j)
  \/ \E j \in CallIds : TransportDialSucceeds(j)
  \/ \E j \in CallIds : MergeSuccessDone(j)
  \/ \E j \in CallIds : MergeSuccessThrows(j)
  \/ \E j \in CallIds : TransportDialFails(j)
  \/ \E j \in CallIds : MergeFailureDone(j)
  \/ \E j \in CallIds : MergeFailureThrows(j)
  \/ \E j \in CallIds : DialTimeout(j)

MergeSpec == Init /\ [][MergeNext]_vars

(***************************************************************************)
(* calculateMultiaddrs() on its own                                        *)
(***************************************************************************)
\* what peerStore.get answers: addresses, a peer without addresses, or an error
StoreResults ==
  { Found(<<Addr(MA("a", NoPeer), FALSE), Addr(MA("b", NoPeer), TRUE)>>), Found(<<>>),
    Failed("NotFoundError"), Failed("StoreError") }

\* what peerRouting.findPeer answers: a relay address, or an error
RoutingResults ==
  { Found(<<MA("r", NoPeer)>>), Failed("NoPeerRoutersError"), Failed("QueryError") }

\* what denyDialMultiaddr denies: nothing, the host g, or every address
Gaters ==
  { {}, {MA("g", p) : p \in RemotePeers \cup {NoPeer}},
    {MA(h, p) : h \in Hosts, p \in RemotePeers \cup {NoPeer}} }

\* the components calculateMultiaddrs() is run with
CalcEnvs ==
  { [DefaultEnv EXCEPT !.denyPeers = {},
                       !.store = [p \in RemotePeers \cup {LocalPeer} |-> st],
                       !.routing = [p \in RemotePeers \cup {LocalPeer} |-> rt],
                       !.denyAddrs = da] :
      st \in StoreResults, rt \in RoutingResults, da \in Gaters }

\* the address-string sets calculateMultiaddrs() is called with
CalcSeeds ==
  { <<>>, <<MaToString(MA("a", NoPeer))>>, <<MaToString(MA("x", NoPeer))>>,
    <<MaToString(MA("g", NoPeer))>>,
    <<MaToString(MA("d", NoPeer)), MaToString(MA("a", "P1"))>>,
    <<MaToString(MA("a", NoPeer)), MaToString(MA("a", "P1"))>> }

\* calculateMultiaddrs(peerId, multiaddrs) with the components env, called
\* once
Calculate(peerId, seed, env) ==
  /\ ~calculated.called
  /\ calculated' = [called |-> TRUE, peerId |-> peerId, seed |-> seed, env |-> env,
                    result |-> CalculateMultiaddrs(peerId, seed, env)]
  /\ UNCHANGED <<init, connections, connStatus, queue, jobs, calls, ncalls, shutDownAborted,
                 dialable>>

CalcNext ==
  \E peerId \in {NoPeer, "P1"}, seed \in CalcSeeds, env \in CalcEnvs :
    Calculate(peerId, seed, env)

CalcSpec == Init /\ [][CalcNext]_vars

(***************************************************************************)
(* isDialable()                                                            *)
(***************************************************************************)
\* the multiaddr lists isDialable() is called with
ProbeInputs ==
  { <<>>, <<MA("a", NoPeer)>>, <<MA("r", NoPeer)>>, <<MA("r", NoPeer), MA("a", NoPeer)>>,
    <<MA("x", NoPeer)>>, <<MA("d", NoPeer)>>, <<MA("g", NoPeer)>>,
    <<MA("g", NoPeer), MA("r", "P1")>>, <<MA("r", NoPeer), MA("r", NoPeer)>> }

\* mutant: every address counts as not being a relay address
AnyNotCircuit_mut(addresses) == addresses # <<>>

\* addresses.find(addr => !Circuit.matches(addr.multiaddr)) != null
AnyNotCircuit(addresses) ==
  FindIndex(addresses, LAMBDA addr : ~IsCircuit(addr.multiaddr)) # 0

\* isDialable(multiaddr, {runOnLimitedConnection}): calculateMultiaddrs
\* without a PeerId; any error it throws is caught and false is returned
IsDialable(multiaddr, runOnLimitedConnection) ==
  /\ LET r == CalculateMultiaddrs(NoPeer, SetAddAll(<<>>, MapSeq(multiaddr, MaToString)),
                                  DefaultEnv)
         result == IF r.err # "none" THEN FALSE
                   ELSE IF runOnLimitedConnection = FALSE THEN AnyNotCircuit(r.addresses)
                   ELSE TRUE
     IN dialable' = [called |-> TRUE, multiaddr |-> multiaddr,
                     runOnLimitedConnection |-> runOnLimitedConnection,
                     result |-> result]
  /\ UNCHANGED <<init, connections, connStatus, queue, jobs, calls, ncalls, shutDownAborted,
                 calculated>>

\* isDialable() called in between dial() calls, address calculations and
\* failing transport dials
ProbeNext ==
  \/ \E args \in DialArgs : Dial(args.target, args.force)
  \/ \E j \in CallIds : CalcDone(j)
  \/ \E j \in CallIds : TransportDialFails(j)
  \/ \E multiaddr \in ProbeInputs, runOnLimitedConnection \in BOOLEAN :
       IsDialable(multiaddr, runOnLimitedConnection)

ProbeSpec == Init /\ [][ProbeNext]_vars

(***************************************************************************)
(* Properties                                                              *)
(***************************************************************************)
InQueue(j) == j \in Range(queue)

\* the call made by this step, 0 when the step is no dial() call
NewCall == IF ncalls' = ncalls + 1 THEN ncalls' ELSE 0

C2_QueueLengthBounded == QueueSize(queue) <= init.maxDialQueueLength

\* the queue is at its limit, one caller joined a job of it and another call
\* was refused because the queue was full
C2_Witness ==
  /\ QueueSize(queue) = init.maxDialQueueLength
  /\ \E c \in CallIds : calls[c].err = "DialError: Dial queue is full"

\* C3: no two jobs of the queue have the same PeerId, and no two jobs of the
\* queue have address-string sets that intersect.
C3_OneJobPerOverlappingTarget ==
  \A j1, j2 \in CallIds :
    (j1 # j2 /\ InQueue(j1) /\ InQueue(j2)) =>
      /\ ~(jobs[j1].peerId # NoPeer /\ jobs[j1].peerId = jobs[j2].peerId)
      /\ Range(jobs[j1].multiaddrs) \cap Range(jobs[j2].multiaddrs) = {}

\* the address a transport dial of this job is in progress for
DialInProgress(j) == jobs[j].tdials[Len(jobs[j].tdials)]

\* C5: at most one transport dial per address string is in progress at any
\* time across the jobs of the queue.
C5_OneDialPerAddress ==
  \A j1, j2 \in CallIds :
    (j1 # j2 /\ InQueue(j1) /\ InQueue(j2)
       /\ jobs[j1].pc = "dialing" /\ jobs[j2].pc = "dialing")
      => DialInProgress(j1) # DialInProgress(j2)

\* an earlier call for the same target whose job is still in the queue
EarlierCallInQueue(c0, target) ==
  /\ c0 \in 1..ncalls
  /\ calls[c0].target = target
  /\ calls[c0].via \in {"add", "join"}
  /\ InQueue(calls[c0].job)

\* the connections map holds no open connection to the target
NoOpenConnectionTo(target) ==
  LET pa == GetPeerAddress(target)
  IN \A i \in 1..Len(connections) : connStatus[i] = "open" =>
       /\ ~(pa.peerId # NoPeer /\ connections[i].remotePeer = pa.peerId)
       /\ connections[i].remoteAddr \notin Range(pa.multiaddrs)

\* no job has called transportManager.dial twice for one address string
NoRepeatedDial ==
  \A j \in CallIds : \A i, k \in 1..Len(jobs[j].tdials) :
    i # k => jobs[j].tdials[i] # jobs[j].tdials[k]

\* the callers of one job that were resolved hold the same Connection
SameConnection ==
  \A c1, c2 \in CallIds :
    (calls[c1].st = "resolved" /\ calls[c2].st = "resolved"
       /\ calls[c1].job # 0 /\ calls[c1].job = calls[c2].job)
      => calls[c1].res = calls[c2].res

C4_JoinStep ==
  /\ \A c0 \in CallIds :
       (NewCall # 0 /\ EarlierCallInQueue(c0, calls'[NewCall].target)
          /\ NoOpenConnectionTo(calls'[NewCall].target))
         => /\ queue' = queue
            /\ calls'[NewCall].via = "join"
            /\ calls'[NewCall].job = calls[c0].job
            /\ calls'[NewCall].st = "pending"
  /\ NoRepeatedDial'
  /\ SameConnection'

\* C4: a dial() call for the target of an earlier call whose job is still in
\* the queue, made while no connection to the target exists, creates no new
\* job and joins that job; a job attempts no address twice; and the callers
\* of one job receive the same Connection.
C4_JoinEquivalence == [][C4_JoinStep]_vars

\* two calls for one target, the second joined the first one's job, and both
\* were resolved with the same Connection
C4_Witness ==
  \E c1, c2 \in CallIds :
    /\ c1 < c2
    /\ calls[c1].target = calls[c2].target
    /\ calls[c1].via = "add" /\ calls[c2].via = "join"
    /\ calls[c2].job = calls[c1].job
    /\ calls[c1].st = "resolved" /\ calls[c2].st = "resolved"
    /\ calls[c1].res = calls[c2].res
    /\ calls[c1].res # NoConn

C6_ShortCircuitStep ==
  LET c == NewCall
  IN (/\ c # 0
      /\ ~calls'[c].force
      /\ calls'[c].target.peer # NoPeer
      /\ \E i \in 1..Len(connections) :
           connStatus[i] = "open" /\ connections[i].remotePeer = calls'[c].target.peer)
       => /\ calls'[c].st = "resolved"
          /\ \E i \in 1..Len(connections) :
               /\ connStatus[i] = "open"
               /\ connections[i].remotePeer = calls'[c].target.peer
               /\ calls'[c].res = connections[i]
          /\ UNCHANGED <<queue, jobs>>

\* C6: without force, when the connections map holds an open connection
\* whose remotePeer is the target PeerId, dial() returns that open
\* Connection, makes no transport dial and leaves the job queue unchanged.
C6_ShortCircuitIdempotence == [][C6_ShortCircuitStep]_vars

\* C7: every Connection a dial() call resolves with has status open at the
\* moment the caller receives it.
C7_ResolvedConnectionOpen ==
  \A c \in CallIds : calls[c].st = "resolved" => calls[c].resStatus = "open"

\* C8: a job calls transportManager.dial at most maxPeerAddrsToDial times.
C8_AttemptsBounded ==
  \A j \in CallIds : Len(jobs[j].tdials) <= init.maxPeerAddrsToDial

\* a job whose address list is longer than the limit dialed as many addresses
\* as allowed, all failed, and it gave up
C8_Witness ==
  \E j \in CallIds :
    /\ Len(jobs[j].tdials) = init.maxPeerAddrsToDial
    /\ jobs[j].result = "DialError: Peer had more than maxPeerAddrsToDial"

Front(seq) == SubSeq(seq, 1, Len(seq) - 1)

\* C9: the Connection of a job is that of the last address it attempted,
\* every address attempted before it failed, the addresses attempted are the
\* first ones of the calculated list in its order, and the callers the job
\* resolves receive that Connection.
C9_FirstSuccessWins ==
  /\ \A j \in CallIds : jobs[j].conn # NoConn =>
       /\ jobs[j].tdials # <<>>
       /\ MaToString(jobs[j].conn.remoteAddr) = jobs[j].tdials[Len(jobs[j].tdials)]
       /\ jobs[j].pc = "mergeSuccess" =>
            /\ jobs[j].errors = Front(jobs[j].tdials)
            /\ jobs[j].tdials =
                 MapSeq(SubSeq(jobs[j].addrsToDial, 1, Len(jobs[j].tdials)),
                        LAMBDA a : MaToString(a.multiaddr))
  /\ \A c \in CallIds :
       (calls[c].st = "resolved" /\ calls[c].via \in {"add", "join"})
         => /\ calls[c].res = jobs[calls[c].job].conn
            /\ calls[c].res # NoConn

\* a caller was resolved by a job for P1, which has two addresses, and the
\* job attempted only the first of them
C9_Witness ==
  \E c \in CallIds :
    /\ calls[c].st = "resolved"
    /\ calls[c].via = "add"
    /\ jobs[calls[c].job].peerId = "P1"
    /\ init.maxPeerAddrsToDial > 1
    /\ Len(jobs[calls[c].job].tdials) = 1

C10_IsolationStep ==
  \A a, b \in CallIds :
    LET j == calls[b].job
    IN /\ (/\ a # b
           /\ calls[a].st = "pending" /\ calls[b].st = "pending"
           /\ calls[a].job = j
           /\ ~calls[a].aborted /\ calls'[a].aborted
           /\ ~calls'[b].aborted)
            => /\ calls'[a].st = "rejected"
               /\ calls'[b] = calls[b]
               /\ queue' = queue
               /\ jobs'[j] = jobs[j]
       /\ (/\ calls[b].st = "pending" /\ calls'[b].st # "pending"
           /\ ~calls'[b].aborted)
            => \/ /\ calls'[b].st = "resolved"
                  /\ jobs'[j].result = "conn"
                  /\ calls'[b].res = jobs'[j].conn
               \/ /\ calls'[b].st = "rejected"
                  /\ jobs'[j].pc = "done"
                  /\ calls'[b].err = jobs'[j].result
               \/ /\ calls'[b].st = "rejected"
                  /\ jobs'[j].status = "aborted"
                  /\ calls'[b].err = "AbortError"
                  /\ shutDownAborted'

\* C10: when a waiter of a job aborts its own signal while another waiter of
\* the job has not, only the aborting waiter rejects and the job is left as
\* it was; a waiter that has not aborted settles with the job's outcome.
C10_CancellationIsolation == [][C10_IsolationStep]_vars

\* the caller that added a job aborted and was rejected, the caller that
\* joined it was resolved with the job's Connection
C10_Witness ==
  \E a, b \in CallIds :
    /\ calls[a].via = "add" /\ calls[b].via = "join"
    /\ calls[b].job = calls[a].job
    /\ calls[a].aborted /\ calls[a].st = "rejected" /\ calls[a].err = "AbortError"
    /\ calls[b].st = "resolved" /\ calls[b].res = jobs[calls[b].job].conn

\* the callers waiting for job j
PendingWaiters(j) == {c \in Waiters(calls, j) : calls[c].st = "pending"}

C11_TimeoutStep ==
  \A j \in CallIds :
    /\ (jobs[j].pc = "idle" /\ jobs'[j].pc = "idle") => ~jobs'[j].sigAborted
    /\ (/\ jobs[j].peerId # LocalPeer
        /\ jobs[j].sigAborted
        /\ jobs[j].pc \in {"calc", "dialing", "mergeFailure"}
        /\ jobs'[j].pc = "done")
         => /\ jobs'[j].result = "TimeoutError"
            /\ \A c \in PendingWaiters(j) :
                 calls'[c].st = "rejected" /\ calls'[c].err = "TimeoutError"

\* C11: with the dialTimeout timers as the only source of cancellation, the
\* timer of a job does not fire while the job waits in the queue; and when it
\* has fired during address calculation or a transport dial, the job fails
\* with TimeoutError and every waiter of the job rejects with TimeoutError.
C11_TimeoutRejectsAll == [][C11_TimeoutStep]_vars

C12_StopStep ==
  /\ (shutDownAborted /\ shutDownAborted') =>
       \A j \in CallIds : jobs'[j].status = "running" => jobs[j].status = "running"
  /\ Stop =>
       \A c \in CallIds : (calls[c].st = "pending" /\ InQueue(calls[c].job))
         => calls'[c].st = "rejected" /\ calls'[c].err = "AbortError"

\* C12: between stop() and the next start() no job starts executing, a job
\* added by a dial() call made in between included; and the callers of every
\* job that is in the queue when stop() is called reject with AbortError.
C12_NoStartAfterStop == [][C12_StopStep]_vars

Settled(call) == call.st \in {"resolved", "rejected"}

C13_SettleStep ==
  \A c \in CallIds :
    /\ Settled(calls[c]) => calls'[c].st = calls[c].st /\ calls'[c].res = calls[c].res
                              /\ calls'[c].err = calls[c].err
    /\ calls'[c].st = "resolved" => calls'[c].res # NoConn /\ calls'[c].err = "none"
    /\ calls'[c].st = "rejected" => calls'[c].res = NoConn /\ calls'[c].err # "none"
    /\ calls'[c].st \in {"none", "pending"} =>
         calls'[c].res = NoConn /\ calls'[c].err = "none"

\* C13: a dial() call that has settled stays settled as it is: a resolved
\* call holds one Connection and no error, a rejected call one error and no
\* Connection, whatever the job, the caller's abort, the timeout or stop()
\* do afterwards.
C13_SettlesOnce == [][C13_SettleStep]_vars

\* a caller was rejected by its own abort, and the job it waited for went on
\* for another caller and completed with a Connection; stop() was called
\* after that
C13_Witness ==
  \E c \in CallIds :
    /\ calls[c].st = "rejected" /\ calls[c].err = "AbortError" /\ calls[c].aborted
    /\ jobs[calls[c].job].status = "complete"
    /\ jobs[calls[c].job].result = "conn"
    /\ shutDownAborted

SelfDialErrors == {"DialError: Tried to dial self", "DialError: Dial queue is full"}

\* C14: a dial() call for the local PeerId never resolves and makes no
\* transport dial; when it settles it rejects with a DialError, whether it
\* added a job, joined the job of an earlier call for the local PeerId or
\* found the queue full, unless the caller's abort or stop() rejected it
\* first.
C14_SelfDialRejected ==
  \A c \in CallIds : calls[c].target = PeerTarget(LocalPeer) =>
    /\ calls[c].st # "resolved"
    /\ calls[c].via \in {"add", "join"} => jobs[calls[c].job].tdials = <<>>
    /\ calls[c].st = "rejected" =>
         \/ calls[c].err \in SelfDialErrors
         \/ /\ calls[c].err = "AbortError"
            /\ calls[c].aborted \/ jobs[calls[c].job].status = "aborted"

\* one call for the local PeerId added a job, a second one joined it, and
\* both were rejected because the target is the local peer
C14_Witness ==
  \E c1, c2 \in CallIds :
    /\ calls[c1].target = PeerTarget(LocalPeer) /\ calls[c2].target = PeerTarget(LocalPeer)
    /\ calls[c1].via = "add" /\ calls[c2].via = "join"
    /\ calls[c1].err = "DialError: Tried to dial self"
    /\ calls[c2].err = "DialError: Tried to dial self"

C15_QueueFullStep ==
  LET c == NewCall
  IN (/\ c # 0
      /\ GetPeerAddress(calls'[c].target).err = "none"
      /\ calls'[c].via \notin {"short", "join"}
      /\ QueueSize(queue) >= init.maxDialQueueLength)
       => /\ calls'[c].st = "rejected"
          /\ calls'[c].err = "DialError: Dial queue is full"
          /\ calls'[c].job = 0
          /\ UNCHANGED <<queue, jobs>>

\* C15: a dial() call that neither returns an existing connection nor joins
\* a job, made while queue.size >= maxDialQueueLength, rejects with
\* DialError("Dial queue is full") and leaves the queue and every job as
\* they were.
C15_QueueFullRejection == [][C15_QueueFullStep]_vars

\* a call was refused because the queue was full of the job of an earlier
\* call for another target, which is still waited for
C15_Witness ==
  \E c0, c \in CallIds :
    /\ c0 < c
    /\ calls[c].err = "DialError: Dial queue is full"
    /\ calls[c].target # calls[c0].target
    /\ calls[c0].st = "pending" /\ InQueue(calls[c0].job)
    /\ jobs[calls[c0].job].pc = "dialing"

\* the addresses that remain after resolution, filtering and deduplication
RemainingAddrs(peerId, seed, env) ==
  LET discovered == DiscoverAddrs(peerId, SeedAddrs(seed), env)
      resolved == ResolveAddrs(discovered.addresses, env)
  IN IF discovered.err # "none" \/ resolved.err # "none" THEN <<>>
     ELSE DedupeAddrs(FilterAddrs(peerId, AppendPeerId(peerId, resolved.addresses), env))

\* the gater denies the peer, or every address that remains
GaterVeto(peerId, seed, env) ==
  \/ peerId \notin {NoPeer, env.localPeer} /\ peerId \in env.denyPeers
  \/ LET remaining == RemainingAddrs(peerId, seed, env)
     IN /\ remaining # <<>>
        /\ \A i \in 1..Len(remaining) : remaining[i].multiaddr \in env.denyAddrs

C16_VetoStep ==
  \A j \in CallIds :
    (/\ jobs[j].pc = "calc" /\ jobs'[j].pc # "calc"
     /\ GaterVeto(jobs[j].peerId, jobs[j].seed, DefaultEnv))
      => /\ jobs'[j].pc = "done"
         /\ jobs'[j].result = "DialDeniedError"
         /\ jobs'[j].tdials = <<>>
         /\ jobs[j].status = "running" =>
              \A c \in PendingWaiters(j) :
                calls'[c].st = "rejected" /\ calls'[c].err = "DialDeniedError"

\* C16: when denyDialPeer is true for the PeerId of a job, or
\* denyDialMultiaddr is true for every address that remains after
\* resolution, filtering and deduplication, address calculation ends the job
\* with DialDeniedError, its waiters reject with DialDeniedError, and the
\* job has made no transport dial.
C16_GaterVeto == [][C16_VetoStep]_vars

\* a call for the peer the gater denies and a call for the address the gater
\* denies were both rejected with DialDeniedError
C16_Witness ==
  \E c1, c2 \in CallIds :
    /\ calls[c1].target = PeerTarget("P2")
    /\ calls[c2].target = AddrTarget(<<MA("g", NoPeer)>>)
    /\ calls[c1].err = "DialDeniedError" /\ calls[c2].err = "DialDeniedError"
    /\ jobs[calls[c1].job].tdials = <<>> /\ jobs[calls[c2].job].tdials = <<>>

\* the body of job j has ended without a Connection after at least one
\* transport dial, and not with the TimeoutError of an aborted signal
TotalFailure(j) ==
  /\ jobs[j].pc = "done" /\ jobs[j].conn = NoConn
  /\ jobs[j].tdials # <<>>
  /\ jobs[j].result # "TimeoutError"

\* C17 as stated: a job in which one address was attempted and failed
\* rejects with that transport error, a job in which two or more were
\* attempted and all failed rejects with AggregateError, for every length of
\* the calculated list and every maxPeerAddrsToDial.
C17_TotalFailureKind ==
  \A j \in CallIds : TotalFailure(j) =>
    /\ Len(jobs[j].tdials) = 1 => jobs[j].result = "TransportError"
    /\ Len(jobs[j].tdials) >= 2 => jobs[j].result = "AggregateError"

C17_FailureStep ==
  \A j \in CallIds :
    (/\ jobs[j].pc \in {"dialing", "mergeFailure"}
     /\ ~jobs[j].sigAborted
     /\ jobs'[j].pc = "done")
      => LET n == Len(jobs[j].addrsToDial)
         IN IF n > init.maxPeerAddrsToDial
            THEN /\ jobs'[j].result = "DialError: Peer had more than maxPeerAddrsToDial"
                 /\ Len(jobs'[j].tdials) = init.maxPeerAddrsToDial
            ELSE /\ Len(jobs'[j].tdials) = n
                 /\ jobs'[j].result = IF n = 1 THEN "TransportError" ELSE "AggregateError"

\* C17 amended: when the last attempt of a job fails and its signal is not
\* aborted, a calculated list of one address rejects with the transport
\* error and a list of two or more, no longer than maxPeerAddrsToDial, with
\* AggregateError after every address was attempted; a list longer than
\* maxPeerAddrsToDial rejects with DialError("Peer had more than
\* maxPeerAddrsToDial") after maxPeerAddrsToDial attempts.
C17_TotalFailureWithinLimit == [][C17_FailureStep]_vars

\* both addresses of a job were attempted and failed, and the job rejected
\* with AggregateError
C17_Witness ==
  \E j \in CallIds :
    /\ jobs[j].result = "AggregateError"
    /\ Len(jobs[j].tdials) = 2
    /\ init.maxPeerAddrsToDial = 2

C19_SerialStep ==
  \A j \in CallIds :
    LET before == Len(jobs[j].tdials)
        after == Len(jobs'[j].tdials)
    IN /\ after \in {before, before + 1}
       /\ SubSeq(jobs'[j].tdials, 1, before) = jobs[j].tdials
       /\ after = before + 1 =>
            /\ jobs[j].pc # "mergeSuccess" /\ jobs'[j].pc = "dialing"
            /\ jobs'[j].tdials[after] = MaToString(jobs'[j].addrsToDial[after].multiaddr)
       /\ jobs'[j].pc \in {"dialing", "mergeSuccess", "mergeFailure"} =>
            Len(jobs'[j].errors) = after - 1

\* C19: a job starts one transport dial at a time, each for the next address
\* of the list calculateMultiaddrs returned, and while a transport dial of
\* the job is in flight every earlier attempt of the job has failed: the
\* addresses attempted are a prefix of the calculated list, in its order.
C19_SerialOrderedAttempts == [][C19_SerialStep]_vars

\* the dial of the second address of a job is in flight after the first,
\* the certified one, failed
C19_Witness ==
  \E j \in CallIds :
    /\ jobs[j].pc = "dialing"
    /\ Len(jobs[j].addrsToDial) = 2
    /\ jobs[j].tdials = <<MaToString(MA("b", "P1")), MaToString(MA("a", "P1"))>>
    /\ Len(jobs[j].errors) = 1

\* the attempts of job j that have failed so far
FailedAttempts(j) ==
  IF jobs[j].pc = "dialing" \/ jobs[j].conn # NoConn
  THEN Len(jobs[j].tdials) - 1 ELSE Len(jobs[j].tdials)

\* C20: the peer-store merges of a job are one last-dial-failure merge for
\* its PeerId per failed attempt (none when the job has no PeerId), written
\* before the next address is attempted, followed, when an attempt
\* succeeded, by one last-dial-success merge for the connection's remotePeer
\* with its remoteAddr; a caller holds a Connection only after that merge.
C20_PeerStoreFeedback ==
  /\ \A j \in CallIds :
       jobs[j].merges =
         [i \in 1..(IF jobs[j].peerId = NoPeer THEN 0 ELSE FailedAttempts(j)) |->
            [key |-> "last-dial-failure", peer |-> jobs[j].peerId, multiaddrs |-> <<>>]]
         \o (IF jobs[j].conn = NoConn THEN <<>>
             ELSE <<[key |-> "last-dial-success", peer |-> jobs[j].conn.remotePeer,
                     multiaddrs |-> <<jobs[j].conn.remoteAddr>>]>>)
  /\ \A c \in CallIds :
       (calls[c].st = "resolved" /\ calls[c].via \in {"add", "join"}) =>
         /\ jobs[calls[c].job].merges # <<>>
         /\ jobs[calls[c].job].merges[Len(jobs[calls[c].job].merges)].multiaddrs
              = <<calls[c].res.remoteAddr>>

\* a job for P1 failed on its first address and succeeded on the second: a
\* failure merge then a success merge, and its caller holds the Connection;
\* and a job without a PeerId failed on its address and wrote nothing
C20_Witness ==
  \E j1, j2 \in CallIds :
    /\ jobs[j1].peerId = "P1"
    /\ Len(jobs[j1].merges) = 2
    /\ jobs[j1].merges[1].key = "last-dial-failure"
    /\ jobs[j1].merges[2].key = "last-dial-success"
    /\ calls[j1].st = "resolved" /\ calls[j1].res = jobs[j1].conn
    /\ jobs[j2].peerId = NoPeer
    /\ jobs[j2].result = "TransportError"
    /\ jobs[j2].merges = <<>>

C18_ProbeStep ==
  /\ dialable' # dialable =>
       UNCHANGED <<init, connections, connStatus, queue, jobs, calls, ncalls,
                   shutDownAborted, calculated>>
  /\ dialable'.called =>
       LET addrs == CalculateMultiaddrs(NoPeer,
                           SetAddAll(<<>>, MapSeq(dialable'.multiaddr, MaToString)),
                           DefaultEnv)
       IN /\ addrs.err # "none" => dialable'.result = FALSE
          /\ (addrs.err = "none" /\ dialable'.runOnLimitedConnection) =>
               dialable'.result = TRUE
          /\ (addrs.err = "none" /\ ~dialable'.runOnLimitedConnection) =>
               dialable'.result =
                 (\E i \in 1..Len(addrs.addresses) :
                    addrs.addresses[i].multiaddr.h \notin CircuitHosts)

\* C18: an isDialable() call leaves the queue, every job (its transport
\* dials and peer-store merges with it), every dial() call and the
\* connections as they were; it returns false when address calculation
\* fails, and otherwise true, except that with runOnLimitedConnection false
\* it returns whether some addrs address is not a circuit-relay
\* address.
C18_IsDialablePure == [][C18_ProbeStep]_vars

\* isDialable() returned false for a relay address with
\* runOnLimitedConnection false, while a job that had a transport dial fail
\* and wrote a merge is in the queue
C18_Witness ==
  /\ dialable.called
  /\ dialable.multiaddr = <<MA("r", NoPeer)>>
  /\ ~dialable.runOnLimitedConnection
  /\ dialable.result = FALSE
  /\ \E j \in CallIds : InQueue(j) /\ jobs[j].merges # <<>> /\ jobs[j].tdials # <<>>

\* the string of the address job j attempted last
LastAttempt(j) == jobs[j].tdials[Len(jobs[j].tdials)]

C21_MergeStep ==
  \A j \in CallIds :
    /\ (jobs[j].pc = "mergeSuccess" /\ jobs'[j].pc # "mergeSuccess") =>
         /\ jobs'[j].pc = "done"
         /\ jobs'[j].result = "conn"
         /\ jobs'[j].conn = jobs[j].conn
         /\ jobs[j].status = "running" =>
              \A c \in PendingWaiters(j) :
                calls'[c].st = "resolved" /\ calls'[c].res = jobs[j].conn
    /\ (jobs[j].pc = "mergeFailure" /\ jobs'[j].pc # "mergeFailure") =>
         IF jobs[j].sigAborted
         THEN jobs'[j].pc = "done" /\ jobs'[j].result = "TimeoutError"
         ELSE \/ /\ jobs'[j].pc = "dialing"
                 /\ jobs'[j].errors = Append(jobs[j].errors, LastAttempt(j))
                 /\ Len(jobs'[j].tdials) = Len(jobs[j].tdials) + 1
              \/ /\ jobs'[j].pc = "done"
                 /\ jobs'[j].tdials = jobs[j].tdials
                 /\ jobs'[j].result \in
                      {"TransportError", "AggregateError",
                       "DialError: Peer had more than maxPeerAddrsToDial"}

\* C21: whether or not peerStore.merge throws, the end of the success merge
\* resolves the job and its waiters with the dialed Connection, and the end
\* of the failure merge counts the attempt as failed with its transport
\* error and goes on to the next address or rejects with the error of the
\* attempts (TimeoutError when the signal is aborted), never with the error
\* of the peer store.
C21_MergeFailureHarmless == [][C21_MergeStep]_vars

\* the failure merge of the first attempt threw, the success merge of the
\* second threw, and the caller was resolved with the Connection
C21_Witness ==
  \E j \in CallIds :
    /\ jobs[j].logged = 2
    /\ Len(jobs[j].tdials) = 2
    /\ jobs[j].result = "conn"
    /\ calls[j].st = "resolved" /\ calls[j].res = jobs[j].conn

\* the body of job j starts in this step
Starts(j) == jobs[j].pc = "idle" /\ jobs'[j].pc # "idle"

C22_AbortStep ==
  \A j \in CallIds :
    /\ (BodyActive(jobs[j]) /\ DialTimeout(j)) => jobs'[j].sigAborted
    /\ (BodyActive(jobs[j]) /\ InQueue(j) /\ Stop) => jobs'[j].sigAborted
    /\ (BodyActive(jobs'[j]) /\ jobs'[j].status = "aborted") => jobs'[j].sigAborted
    /\ (Starts(j) /\ shutDownAborted) => jobs'[j].sigAborted
    /\ jobs[j].sigAborted =>
         /\ jobs'[j].sigAborted \/ jobs'[j].pc = "done"
         /\ (jobs[j].pc \in {"dialing", "mergeFailure"}
               /\ jobs'[j].pc \notin {jobs[j].pc, "mergeFailure"}) =>
              /\ jobs'[j].pc = "done"
              /\ jobs'[j].result = "TimeoutError"
              /\ jobs'[j].tdials = jobs[j].tdials

AllWaitersAborted(cs, j) == \A w \in Waiters(cs, j) : cs[cs[w].signal].aborted

\* a caller aborts its signal in this step
UserAborts == \E s \in CallIds : ~calls[s].aborted /\ calls'[s].aborted

\* C23 as stated: when a caller aborts its signal, a job of the queue some
\* waiter of which has not aborted is left as it was, and a job all waiters
\* of which have now aborted is aborted; and a job aborted by its waiters
\* makes no transport dial afterwards.
C23_AbortedJobStep ==
  \A j \in CallIds :
    /\ (UserAborts /\ InQueue(j)) =>
         IF AllWaitersAborted(calls', j)
         THEN jobs'[j].status = "aborted" /\ ~InQueue(j)'
         ELSE jobs'[j] = jobs[j] /\ InQueue(j)'
    /\ (jobs[j].status = "aborted" /\ AllWaitersAborted(calls, j)) =>
         jobs'[j].tdials = jobs[j].tdials

C23_AbortWhenAllWaitersAbort == [][C23_AbortedJobStep]_vars

C24_RestartStep ==
  /\ Start => ~shutDownAborted'
  /\ \A j \in CallIds :
       /\ Starts(j) => jobs'[j].sigAborted = shutDownAborted
       /\ (Stop /\ InQueue(j) /\ BodyActive(jobs[j])) => jobs'[j].sigAborted

\* C24: start() installs a shutdown controller whose signal is not aborted;
\* the composite signal of a job that starts is aborted by shutdown exactly
\* when the controller current at that moment is, so not by a stop() that a
\* start() followed; and a later stop() aborts it.
C24_FreshShutdownController == [][C24_RestartStep]_vars

\* stop() rejected the first call, start() was called, and the job of a
\* later call is dialing with a signal that is not aborted
C24_Witness ==
  \E c1, c2 \in CallIds :
    /\ c1 < c2
    /\ calls[c1].st = "rejected" /\ calls[c1].err = "AbortError" /\ ~calls[c1].aborted
    /\ ~shutDownAborted
    /\ calls[c2].via = "add" /\ calls[c2].st = "pending"
    /\ jobs[c2].pc = "dialing" /\ ~jobs[c2].sigAborted

\* the hosts of the addresses a calculation returned
ResultHosts(result) == {result.addresses[i].multiaddr.h : i \in 1..Len(result.addresses)}

\* the calculation reads the peer store: a PeerId and no seed address
ReadsStore(k) == k.peerId # NoPeer /\ k.seed = <<>>

\* the list is still empty after the peer store was read
StillEmpty(k) ==
  /\ ReadsStore(k)
  /\ \/ k.env.store[k.peerId].err = "NotFoundError"
     \/ k.env.store[k.peerId].err = "none" /\ k.env.store[k.peerId].addresses = <<>>

\* what C25 says of the peer store, and of peer routing answering or
\* throwing NoPeerRoutersError
DiscoveryAsClaimed(k) ==
  /\ ~ReadsStore(k) =>
       /\ k.result.err \notin {"StoreError", "QueryError"}
       /\ ResultHosts(k.result) \cap {"b", "r"} = {}
  /\ (ReadsStore(k) /\ k.env.store[k.peerId].err \notin {"none", "NotFoundError"}) =>
       k.result.err = k.env.store[k.peerId].err
  /\ (ReadsStore(k) /\ ~StillEmpty(k) /\ k.env.store[k.peerId].err = "none") =>
       /\ k.result.err # "QueryError"
       /\ "r" \notin ResultHosts(k.result)
       /\ k.result.err = "none" => ResultHosts(k.result) \subseteq {"a", "b"}
  /\ (StillEmpty(k) /\ k.env.routing[k.peerId].err = "none") =>
       /\ k.result.err \in {"none", "DialDeniedError"}
       /\ k.result.err = "none" => ResultHosts(k.result) = {"r"}
  /\ (StillEmpty(k) /\ k.env.routing[k.peerId].err = "NoPeerRoutersError") =>
       k.result.err = "NoValidAddressesError"

\* peer routing throws an error other than NoPeerRoutersError
RoutingThrowsOther(k) ==
  StillEmpty(k) /\ k.env.routing[k.peerId].err \notin {"none", "NoPeerRoutersError"}

\* C25 as stated: the peer store is read only with a PeerId and no seed,
\* peer routing only when the list is still empty; NotFoundError and
\* NoPeerRoutersError are swallowed; any other error of the peer store or of
\* peer routing fails the calculation with that error.
C25_DiscoveryErrors ==
  calculated.called =>
    /\ DiscoveryAsClaimed(calculated)
    /\ RoutingThrowsOther(calculated) =>
         calculated.result.err = calculated.env.routing[calculated.peerId].err

\* C25 amended: as stated for the peer store; every error of peer routing,
\* NoPeerRoutersError or not, is swallowed and the calculation goes on with
\* the empty list.
C25_RoutingErrorsSwallowed ==
  calculated.called =>
    /\ DiscoveryAsClaimed(calculated)
    /\ RoutingThrowsOther(calculated) =>
         calculated.result.err = "NoValidAddressesError"

\* the peer store does not know P1, peer routing throws an error other than
\* NoPeerRoutersError, and the calculation fails for want of addresses
C25_Witness ==
  /\ calculated.called
  /\ calculated.peerId = "P1" /\ calculated.seed = <<>>
  /\ calculated.env.store["P1"].err = "NotFoundError"
  /\ calculated.env.routing["P1"].err = "QueryError"
  /\ calculated.result.err = "NoValidAddressesError"

\* the addresses that remain after resolution, transport filtering and
\* PeerId-consistency filtering, as a set
RemainingSet(k) ==
  LET discovered == DiscoverAddrs(k.peerId, SeedAddrs(k.seed), k.env)
      resolved == ResolveAddrs(discovered.addresses, k.env)
      filtered == FilterAddrs(k.peerId, AppendPeerId(k.peerId, resolved.addresses), k.env)
  IN {filtered[i].multiaddr : i \in 1..Len(filtered)}

\* discovery and resolution did not fail
ReachesEmptyChecks(k) ==
  LET discovered == DiscoverAddrs(k.peerId, SeedAddrs(k.seed), k.env)
  IN /\ discovered.err = "none"
     /\ ResolveAddrs(discovered.addresses, k.env).err = "none"

\* C26: when discovery and resolution succeed, a calculation with no address
\* remaining fails with NoValidAddressesError whatever the gater denies; one
\* whose remaining addresses are all denied fails with DialDeniedError; any
\* other returns a non-empty list of addresses that remained, none of them
\* denied and no two with the same string form.
C26_EmptyListErrors ==
  (calculated.called /\ ReachesEmptyChecks(calculated)) =>
    LET k == calculated
        remaining == RemainingSet(k)
        list == k.result.addresses
    IN /\ remaining = {} => k.result.err = "NoValidAddressesError"
       /\ (remaining # {} /\ remaining \subseteq k.env.denyAddrs) =>
            k.result.err = "DialDeniedError"
       /\ (remaining \ k.env.denyAddrs) # {} =>
            /\ k.result.err = "none"
            /\ list # <<>>
            /\ {list[i].multiaddr : i \in 1..Len(list)} = remaining \ k.env.denyAddrs
            /\ \A i, j \in 1..Len(list) :
                 i # j => MaToString(list[i].multiaddr) # MaToString(list[j].multiaddr)

\* two address strings that resolve to the same address were calculated
\* into a list of one address, under a gater that denies other addresses
C26_Witness ==
  /\ calculated.called
  /\ Len(calculated.seed) = 2
  /\ calculated.env.denyAddrs # {}
  /\ calculated.result.err = "none"
  /\ Len(calculated.result.addresses) = 1

\* a job of the queue has the PeerId of the target or one of its address
\* strings
Overlaps(j, target) ==
  LET pa == GetPeerAddress(target)
  IN \/ pa.peerId # NoPeer /\ jobs[j].peerId = pa.peerId
     \/ \E i \in 1..Len(pa.multiaddrs) :
          MaToString(pa.multiaddrs[i]) \in Range(jobs[j].multiaddrs)

C27_JoinFirstStep ==
  LET c == NewCall
  IN (/\ c # 0
      /\ calls'[c].via # "short"
      /\ \E j \in CallIds : InQueue(j) /\ Overlaps(j, calls'[c].target))
       => /\ calls'[c].via = "join"
          /\ calls'[c].st = "pending"
          /\ InQueue(calls'[c].job) /\ Overlaps(calls'[c].job, calls'[c].target)
          /\ queue' = queue

\* C27: a dial() call that does not return an existing connection and whose
\* target overlaps a job of the queue joins such a job and stays pending,
\* whatever queue.size is, and leaves the queue as it was.
C27_JoinBeforeQueueFull == [][C27_JoinFirstStep]_vars

\* a call joined a job while the queue was full, and is still waiting
C27_Witness ==
  \E c \in CallIds :
    /\ calls[c].via = "join" /\ calls[c].st = "pending"
    /\ InQueue(calls[c].job)
    /\ jobs[calls[c].job].status = "running"
    /\ QueueSize(queue) = init.maxDialQueueLength
    /\ ncalls = c

\* the address strings of the target of a call
TargetStrings(call) ==
  Range(MapSeq(GetPeerAddress(call.target).multiaddrs, MaToString))

C28_FixedStep ==
  \A j \in CallIds :
    LET job == jobs[j]
        job2 == jobs'[j]
        r == CalculateMultiaddrs(job.peerId, job.seed, DefaultEnv)
    IN \* the calculation starts from every string unioned in so far
       /\ Starts(j) =>
            /\ job2.seed = job2.multiaddrs
            /\ \A c \in Waiters(calls', j) : TargetStrings(calls'[c]) \subseteq Range(job2.seed)
       \* a join after that reaches the job's set and nothing else
       /\ (NewCall # 0 /\ calls'[NewCall].via = "join" /\ calls'[NewCall].job = j
              /\ job.pc # "idle") =>
            /\ TargetStrings(calls'[NewCall]) \subseteq Range(job2.multiaddrs)
            /\ job2 = [job EXCEPT !.multiaddrs = job2.multiaddrs]
       \* the list is calculated from the strings the job started with
       /\ (job.pc = "calc" /\ job2.pc # "calc") =>
            IF r.err # "none"
            THEN job2.result = r.err /\ job2.tdials = <<>>
            ELSE job2.addrsToDial = r.addresses
       \* and stays as calculated while the loop runs
       /\ (job.pc \in {"dialing", "mergeSuccess", "mergeFailure"} /\ job2.pc # "done") =>
            job2.addrsToDial = job.addrsToDial
       \* every attempt is the next address of that list
       /\ job2.tdials # job.tdials =>
            /\ job2.pc = "dialing"
            /\ job2.tdials =
                 Append(job.tdials, MaToString(job2.addrsToDial[job2.dialed].multiaddr))
       \* a joiner gets the outcome of the job
       /\ \A c \in Waiters(calls, j) :
            (calls[c].st = "pending" /\ job.pc # "done" /\ job2.pc = "done") =>
              IF job2.result = "conn"
              THEN calls'[c].st = "resolved" /\ calls'[c].res = job2.conn
              ELSE calls'[c].st = "rejected" /\ calls'[c].err = job2.result

\* C28: a job calculates its address list from the strings its set holds when
\* its body starts, strings of every caller that joined before included; a
\* caller that joins later only adds strings to the set, the list the job
\* attempts stays the calculated one, and the joiner settles with the job's
\* outcome.
C28_AddressListFixedAtCalculation == [][C28_FixedStep]_vars

\* the first job, running since it was added, was joined with a relay address
\* it never attempted and the joiner got its connection; a later job, joined
\* while it waited, attempted the address its joiner brought
C28_Witness ==
  \E c, k, c2 \in CallIds :
    /\ calls[c].via = "join" /\ calls[c].job = 1
    /\ jobs[1].pc = "done" /\ jobs[1].result = "conn"
    /\ \E s \in TargetStrings(calls[c]) :
         s \in Range(jobs[1].multiaddrs) /\ s \notin Range(jobs[1].tdials)
    /\ calls[c].st = "resolved" /\ calls[c].res = jobs[1].conn
    /\ k # 1 /\ calls[k].via = "add"
    /\ calls[c2].via = "join" /\ calls[c2].job = k
    /\ \E s \in TargetStrings(calls[c2]) \ TargetStrings(calls[k]) :
         s \in Range(jobs[k].tdials)

====
